---- MODULE Spec2Model ----
(***************************************************************************)
(* ethereum_hashing: SHA256 behind a runtime-selected backend, a streaming *)
(* context, and the lazily built table of zero hashes (src/src/lib.rs).    *)
(*                                                                         *)
(* The SHA256 primitive itself lives in the sha2 crate, reached through    *)
(* the crate's own sha2_impl module; it is modelled here from FIPS 180-4   *)
(* (compression function, block buffer, length padding) so that digests    *)
(* are the real 32 bytes and the streaming path is a computation that can  *)
(* disagree with the one-shot path.                                        *)
(***************************************************************************)
EXTENDS Integers, Sequences, FiniteSets, TLC

(***************************************************************************)
(* Bounds of the model.                                                    *)
(***************************************************************************)
\* number of update calls one streaming context receives
MaxChunks == 3
\* number of threads sharing the process-wide singletons
NThreads == 2
\* how far past ZERO_HASHES_MAX_INDEX a lookup index may lie
Over == 2

(***************************************************************************)
(* Program constants.                                                      *)
(***************************************************************************)
\* pub const HASH_LEN: usize = 32
HASH_LEN == 32
\* pub const ZERO_HASHES_MAX_INDEX: usize = 48
ZERO_HASHES_MAX_INDEX == 48
\* cpufeatures: const UNINIT: u8 = u8::max_value()
UNINIT == 255
\* SHA256 block size in bytes
BlockLen == 16 * 4

(***************************************************************************)
(* 32-bit words are pairs <<hi, lo>> of 16-bit halves, so that every       *)
(* intermediate sum stays far below the checker's integer range while the  *)
(* arithmetic is still exactly arithmetic modulo 2^32.                     *)
(***************************************************************************)
XorNib ==
<< <<0, 1, 2, 3, 4, 5, 6, 7, 8, 9, 10, 11, 12, 13, 14, 15>>,
   <<1, 0, 3, 2, 5, 4, 7, 6, 9, 8, 11, 10, 13, 12, 15, 14>>,
   <<2, 3, 0, 1, 6, 7, 4, 5, 10, 11, 8, 9, 14, 15, 12, 13>>,
   <<3, 2, 1, 0, 7, 6, 5, 4, 11, 10, 9, 8, 15, 14, 13, 12>>,
   <<4, 5, 6, 7, 0, 1, 2, 3, 12, 13, 14, 15, 8, 9, 10, 11>>,
   <<5, 4, 7, 6, 1, 0, 3, 2, 13, 12, 15, 14, 9, 8, 11, 10>>,
   <<6, 7, 4, 5, 2, 3, 0, 1, 14, 15, 12, 13, 10, 11, 8, 9>>,
   <<7, 6, 5, 4, 3, 2, 1, 0, 15, 14, 13, 12, 11, 10, 9, 8>>,
   <<8, 9, 10, 11, 12, 13, 14, 15, 0, 1, 2, 3, 4, 5, 6, 7>>,
   <<9, 8, 11, 10, 13, 12, 15, 14, 1, 0, 3, 2, 5, 4, 7, 6>>,
   <<10, 11, 8, 9, 14, 15, 12, 13, 2, 3, 0, 1, 6, 7, 4, 5>>,
   <<11, 10, 9, 8, 15, 14, 13, 12, 3, 2, 1, 0, 7, 6, 5, 4>>,
   <<12, 13, 14, 15, 8, 9, 10, 11, 4, 5, 6, 7, 0, 1, 2, 3>>,
   <<13, 12, 15, 14, 9, 8, 11, 10, 5, 4, 7, 6, 1, 0, 3, 2>>,
   <<14, 15, 12, 13, 10, 11, 8, 9, 6, 7, 4, 5, 2, 3, 0, 1>>,
   <<15, 14, 13, 12, 11, 10, 9, 8, 7, 6, 5, 4, 3, 2, 1, 0>> >>

Half == 2 ^ 16

\* the byte table built from the nibble table n
XorByteOf(n) ==
    [a \in 1..256 |->
        [b \in 1..256 |->
            16 * n[((a - 1) \div 16) + 1][((b - 1) \div 16) + 1]
               + n[((a - 1) % 16) + 1][((b - 1) % 16) + 1]] \o <<>>] \o <<>>

\* bitwise xor on bytes, as a table: XorByte[a + 1][b + 1] = a xor b
XorByte == XorByteOf(XorNib)

\* xor of two 16-bit halves, byte by byte through the table t
Xor16(t, x, y) ==
    256 * t[(x \div 256) + 1][(y \div 256) + 1] + t[(x % 256) + 1][(y % 256) + 1]

\* x + y = (x xor y) + 2 * (x and y)
And16(t, x, y) == (x + y - Xor16(t, x, y)) \div 2

WXorIn(t, a, b) == <<Xor16(t, a[1], b[1]), Xor16(t, a[2], b[2])>>
WAndIn(t, a, b) == <<And16(t, a[1], b[1]), And16(t, a[2], b[2])>>
WXor(a, b) == WXorIn(XorByte, a, b)
WAnd(a, b) == WAndIn(XorByte, a, b)
WNot(a) == <<Half - 1 - a[1], Half - 1 - a[2]>>

Pow2 == <<1, 2, 4, 8, 16, 32, 64, 128, 256, 512, 1024, 2048, 4096, 8192,
         16384, 32768, 65536>>

\* wrapping_add on u32
WAdd(a, b) ==
    LET lo == a[2] + b[2]
    IN  <<(a[1] + b[1] + (lo \div Half)) % Half, lo % Half>>

\* rotate_right on u32, 0 < n < 32
Rotr(a, n) ==
    LET x == IF n >= 16 THEN <<a[2], a[1]>> ELSE a
        m == n % 16
        p == Pow2[m + 1]
        q == Pow2[17 - m]
    IN  IF m = 0 THEN x
        ELSE <<(x[1] \div p) + (x[2] % p) * q, (x[2] \div p) + (x[1] % p) * q>>

\* logical shift right on u32, 0 < n < 16
Shr(a, n) ==
    LET p == Pow2[n + 1]
        q == Pow2[17 - n]
    IN  <<a[1] \div p, (a[2] \div p) + (a[1] % p) * q>>

Ch(x, y, z) == WXor(WAnd(x, y), WAnd(WNot(x), z))
Maj(x, y, z) == WXor(WXor(WAnd(x, y), WAnd(x, z)), WAnd(y, z))
BigSigma0(x) == WXor(WXor(Rotr(x, 2), Rotr(x, 13)), Rotr(x, 22))
BigSigma1(x) == WXor(WXor(Rotr(x, 6), Rotr(x, 11)), Rotr(x, 25))
SmallSigma0(x) == WXor(WXor(Rotr(x, 7), Rotr(x, 18)), Shr(x, 3))
SmallSigma1(x) == WXor(WXor(Rotr(x, 17), Rotr(x, 19)), Shr(x, 10))

K ==
<< 
   <<17034, 12184>>, <<28983, 17553>>, <<46528, 64463>>, <<59829, 56229>>,
   <<14678, 49755>>, <<23025, 4593>>, <<37439, 33444>>, <<43804, 24277>>,
   <<55303, 43672>>, <<4739, 23297>>, <<9265, 34238>>, <<21772, 32195>>,
   <<29374, 23924>>, <<32990, 45566>>, <<39900, 1703>>, <<49563, 61812>>,
   <<58523, 27073>>, <<61374, 18310>>, <<4033, 40390>>, <<9228, 41420>>,
   <<11753, 11375>>, <<19060, 33962>>, <<23728, 43484>>, <<30457, 35034>>,
   <<38974, 20818>>, <<43057, 50797>>, <<45059, 10184>>, <<48985, 32711>>,
   <<50912, 3059>>, <<54695, 37191>>, <<1738, 25425>>, <<5161, 10599>>,
   <<10167, 2693>>, <<11803, 8504>>, <<19756, 28156>>, <<21304, 3347>>,
   <<25866, 29524>>, <<30314, 2747>>, <<33218, 51502>>, <<37490, 11397>>,
   <<41663, 59553>>, <<43034, 26187>>, <<49739, 35696>>, <<51052, 20899>>,
   <<53650, 59417>>, <<54937, 1572>>, <<62478, 13701>>, <<4202, 41072>>,
   <<6564, 49430>>, <<7735, 27656>>, <<10056, 30540>>, <<13488, 48309>>,
   <<14620, 3251>>, <<20184, 43594>>, <<23452, 51791>>, <<26670, 28659>>,
   <<29839, 33518>>, <<30885, 25455>>, <<33992, 30740>>, <<36039, 520>>,
   <<37054, 65530>>, <<42064, 27883>>, <<48889, 41975>>, <<50801, 30962>> >>

H256 ==
<< 
   <<27145, 58983>>, <<47975, 44677>>, <<15470, 62322>>, <<42319, 62778>>,
   <<20750, 21119>>, <<39685, 26764>>, <<8067, 55723>>, <<23520, 52505>> >>

\* big-endian bytes <-> word
BytesToWord(b, k) == <<b[k] * 256 + b[k + 1], b[k + 2] * 256 + b[k + 3]>>
WordToBytes(w) == <<w[1] \div 256, w[1] % 256, w[2] \div 256, w[2] % 256>>

\* message schedule: W[1..16] are the block's words, W[17..64] are derived
RECURSIVE Schedule(_)
Schedule(w) ==
    IF Len(w) >= 64 THEN w
    ELSE LET t == Len(w) + 1
         IN  Schedule(Append(w, WAdd(WAdd(SmallSigma1(w[t - 2]), w[t - 7]),
                                     WAdd(SmallSigma0(w[t - 15]), w[t - 16]))))

\* one round of the compression function on the working variables a..h
RoundOut(s, t1, t2) ==
    <<WAdd(t1, t2), s[1], s[2], s[3], WAdd(s[4], t1), s[5], s[6], s[7]>>

Round(s, wt, kt) ==
    RoundOut(s,
             WAdd(WAdd(WAdd(s[8], BigSigma1(s[5])), WAdd(Ch(s[5], s[6], s[7]), kt)), wt),
             WAdd(BigSigma0(s[1]), Maj(s[1], s[2], s[3])))

\* the 64 rounds; s.t is the next round, s.v the working variables a..h
RECURSIVE Rounds(_, _)
Rounds(s, w) ==
    IF s.t > 64 THEN s.v
    ELSE Rounds([v |-> Round(s.v, w[s.t], K[s.t]), t |-> s.t + 1], w)

\* compress256: one 64-byte block folded into the chaining value
AddState(h, s) ==
    <<WAdd(h[1], s[1]), WAdd(h[2], s[2]), WAdd(h[3], s[3]), WAdd(h[4], s[4]),
      WAdd(h[5], s[5]), WAdd(h[6], s[6]), WAdd(h[7], s[7]), WAdd(h[8], s[8])>>

Compress(h, block) ==
    AddState(h, Rounds([v |-> h, t |-> 1],
                       Schedule([k \in 1..16 |-> BytesToWord(block, 4 * k - 3)])))

(***************************************************************************)
(* sha2::Sha256 as a streaming hasher: chaining value, count of compressed *)
(* blocks, and an eager block buffer that always holds fewer than 64 bytes.*)
(***************************************************************************)
Sha256_new == [h |-> H256, nblocks |-> 0, buf |-> <<>>]

\* compress the k whole blocks at the front of data
RECURSIVE CompressBlocks(_, _, _)
CompressBlocks(h, data, k) ==
    IF k = 0 THEN h
    ELSE CompressBlocks(Compress(h, SubSeq(data, 1, BlockLen)),
                        SubSeq(data, BlockLen + 1, Len(data)), k - 1)

\* Digest::update: fill the buffer, compress every complete block, keep the tail
Sha256_update(c, bytes) ==
    LET data == c.buf \o bytes
        k == Len(data) \div BlockLen
    IN  [h |-> CompressBlocks(c.h, data, k),
         nblocks |-> c.nblocks + k,
         buf |-> SubSeq(data, k * BlockLen + 1, Len(data))]

\* the message length in bits as a big-endian u64 (messages here are far
\* shorter than 2^28 bytes, so the upper four bytes are zero)
BE64(n) ==
    <<0, 0, 0, 0, (n \div 16777216) % 256, (n \div 65536) % 256, (n \div 256) % 256, n % 256>>

Zeros(n) == [k \in 1..n |-> 0]

\* the chaining value as the 32 digest bytes
Digest(h) ==
    WordToBytes(h[1]) \o WordToBytes(h[2]) \o WordToBytes(h[3]) \o WordToBytes(h[4])
    \o WordToBytes(h[5]) \o WordToBytes(h[6]) \o WordToBytes(h[7]) \o WordToBytes(h[8])

\* Digest::finalize: 0x80, zero fill up to 8 bytes short of a block end,
\* 64-bit length; two blocks when the length does not fit behind the
\* buffered bytes
Sha256_finalize(c) ==
    LET pos == Len(c.buf)
        bits == 8 * (c.nblocks * BlockLen + pos)
        fill == (2 * BlockLen - 8 - (pos + 1)) % BlockLen
        tail == c.buf \o <<128>> \o Zeros(fill) \o BE64(bits)
    IN  Digest(CompressBlocks(c.h, tail, Len(tail) \div BlockLen))

(***************************************************************************)
(* sha2_impl: the Sha2 backend.                                            *)
(***************************************************************************)
\* Sha2CrateImpl::hash: the digest of the whole input, as a Vec
Sha2CrateImpl_hash(input) == Sha256_finalize(Sha256_update(Sha256_new, input))

\* Sha2CrateImpl::hash_fixed: the same digest as a [u8; HASH_LEN]
Sha2CrateImpl_hash_fixed(input) == Sha256_finalize(Sha256_update(Sha256_new, input))

(***************************************************************************)
(* State.                                                                  *)
(***************************************************************************)
VARIABLES
    arch,       \* the build target: "x86_64" or "other" (cfg(target_arch))
    cpu_sha,    \* what the CPU reports for sha + sse2 + ssse3 + sse4.1
    storage,    \* x86_sha_extensions::STORAGE, the AtomicU8 memo
    probes,     \* how many times the CPU-feature probe has executed
    op,         \* the caller's current library call and its arguments
    out,        \* the value that call returned
    sel,        \* the DynamicImpl the last best() resolved to
    ctxt,       \* the caller's DynamicContext
    ctx_state,  \* "none", "live", "consumed" (moved into finalize) or "dropped"
    fed,        \* the bytes passed to update so far, in order
    nupdate,    \* update calls made on the context
    nfinal,     \* finalize calls made on the context
    pc,         \* per thread: where the thread is
    tmp,        \* per thread: the value its STORAGE.load returned
    ret,        \* per thread: the boolean its last detector call produced, if any
    once,       \* ZERO_HASHES: "Incomplete", "Running" or "Complete"
    hashes,     \* the closure's local vector while the table is being built
    i,          \* the closure's loop variable
    table,      \* the value published in ZERO_HASHES
    runs,       \* how many times the closure has been started
    idx,        \* per thread: the index of its lookup
    res         \* per thread: the digest its lookup returned

vars == <<arch, cpu_sha, storage, probes, op, out, sel, ctxt, ctx_state, fed,
          nupdate, nfinal, pc, tmp, ret, once, hashes, i, table, runs, idx, res>>

envVars == <<arch, cpu_sha>>
callerVars == <<op, out, sel, ctxt, ctx_state, fed, nupdate, nfinal>>
threadVars == <<pc, tmp, ret, idx, res>>
lazyVars == <<once, hashes, i, table, runs>>

Threads == 1..NThreads

\* placeholders for "no value"
None == <<"none">>
Moved == <<"moved">>
Panic == <<"panic">>

(***************************************************************************)
(* lib.rs: capability detection and backend selection.                     *)
(***************************************************************************)
\* the memo written with the two values exchanged
AsU8Inverted(b) == IF b THEN 0 ELSE 1

\* `res as u8` in the memo
AsU8(b) == IF b THEN 1 ELSE 0

\* x86_sha_extensions::get() run without interruption on memo value st:
\* probe and store when the memo is UNINIT, read the memo otherwise
InitGet(st) ==
    IF st = UNINIT
    THEN [val |-> cpu_sha, storage |-> AsU8(cpu_sha), probed |-> 1]
    ELSE [val |-> (st = 1), storage |-> st, probed |-> 0]

\* pub fn have_sha_extensions() -> bool
have_sha_extensions(st) ==
    IF arch = "x86_64"
    THEN InitGet(st)
    ELSE [val |-> FALSE, storage |-> st, probed |-> 0]

\* a selector whose accelerated arm names another backend
bestAccelerated(st) ==
    IF arch = "x86_64"
    THEN LET d == have_sha_extensions(st)
         IN  [impl |-> IF d.val THEN "ShaNi" ELSE "Sha2",
              storage |-> d.storage, probed |-> d.probed]
    ELSE [impl |-> "Sha2", storage |-> st, probed |-> 0]

\* DynamicImpl::best(): both arms of the x86_64 branch name the same variant;
\* other targets do not consult the detector
best(st) ==
    IF arch = "x86_64"
    THEN LET d == have_sha_extensions(st)
         IN  [impl |-> IF d.val THEN "Sha2" ELSE "Sha2",
              storage |-> d.storage, probed |-> d.probed]
    ELSE [impl |-> "Sha2", storage |-> st, probed |-> 0]

\* a one-shot hash that never feeds its input
DynamicImpl_hashNoInput(self, input) ==
    CASE self = "Sha2" -> Sha2CrateImpl_hash(<<>>)
      [] OTHER -> None

\* impl Sha256 for DynamicImpl (the match has the single arm Sha2)
DynamicImpl_hash(self, input) ==
    CASE self = "Sha2" -> Sha2CrateImpl_hash(input)
      [] OTHER -> None

DynamicImpl_hash_fixed(self, input) ==
    CASE self = "Sha2" -> Sha2CrateImpl_hash_fixed(input)
      [] OTHER -> None

(***************************************************************************)
(* lib.rs: DynamicContext.                                                 *)
(***************************************************************************)
DynamicContext_new(impl) ==
    CASE impl = "Sha2" -> [variant |-> "Sha2", inner |-> Sha256_new]
      [] OTHER -> None

\* an update that restarts the inner hasher instead of continuing it
DynamicContext_updateRestart(self, bytes) ==
    CASE self.variant = "Sha2" -> [self EXCEPT !.inner = Sha256_update(Sha256_new, bytes)]

DynamicContext_update(self, bytes) ==
    CASE self.variant = "Sha2" -> [self EXCEPT !.inner = Sha256_update(self.inner, bytes)]

DynamicContext_finalize(self) ==
    CASE self.variant = "Sha2" -> Sha256_finalize(self.inner)

(***************************************************************************)
(* lib.rs: the free functions.  Each returns its value together with the   *)
(* memo it leaves behind and the number of probes it ran.                  *)
(***************************************************************************)
\* pub fn hash(input: &[u8]) -> Vec<u8>
hash(st, input) ==
    LET b == best(st)
    IN  [val |-> DynamicImpl_hash(b.impl, input), impl |-> b.impl,
         storage |-> b.storage, probed |-> b.probed]

\* pub fn hash_fixed(input: &[u8]) -> [u8; HASH_LEN]
hash_fixed(st, input) ==
    LET b == best(st)
    IN  [val |-> DynamicImpl_hash_fixed(b.impl, input), impl |-> b.impl,
         storage |-> b.storage, probed |-> b.probed]

\* hash32_concat feeding its arguments in the wrong order
hash32_concatSwapped(st, h1, h2) ==
    LET b == best(st)
        c0 == DynamicContext_new(b.impl)
        c1 == DynamicContext_update(c0, h2)
        c2 == DynamicContext_update(c1, h1)
    IN  [val |-> DynamicContext_finalize(c2), impl |-> b.impl,
         storage |-> b.storage, probed |-> b.probed]

\* pub fn hash32_concat(h1: &[u8], h2: &[u8]) -> [u8; 32]
hash32_concat(st, h1, h2) ==
    LET b == best(st)
        c0 == DynamicContext_new(b.impl)
        c1 == DynamicContext_update(c0, h1)
        c2 == DynamicContext_update(c1, h2)
    IN  [val |-> DynamicContext_finalize(c2), impl |-> b.impl,
         storage |-> b.storage, probed |-> b.probed]

(***************************************************************************)
(* Inputs the callers draw from.                                           *)
(***************************************************************************)
Bytes(n) == [k \in 1..n |-> (7 * k + 3) % 256]

\* b"hello world"
HelloWorld == <<104, 101, 108, 108, 111, 32, 119, 111, 114, 108, 100>>

\* chunk lengths: empty, one byte, the rest of a block after 55, and 55
\* (the longest tail whose padding still fits the block)
ChunkLens == {0, 1, 9, 55}
Chunks == {Bytes(n) : n \in ChunkLens}

HashInputs == {<<>>, HelloWorld, Bytes(56), Bytes(64), Bytes(130)}
ConcatInputs == {<<>>, HelloWorld, Zeros(HASH_LEN), Bytes(55)}

Idle == [name |-> "idle", a |-> <<>>, b |-> <<>>]

(***************************************************************************)
(* Initial state: nothing has been called; the target and the CPU are what *)
(* the process happens to run on.                                          *)
(***************************************************************************)
Init ==
    /\ arch \in {"x86_64", "other"}
    /\ cpu_sha \in BOOLEAN
    /\ (arch = "other" => cpu_sha = FALSE)
    /\ storage = UNINIT
    /\ probes = 0
    /\ op = Idle
    /\ out = None
    /\ sel = "none"
    /\ ctxt = None
    /\ ctx_state = "none"
    /\ fed = <<>>
    /\ nupdate = 0
    /\ nfinal = 0
    /\ pc = [t \in Threads |-> "idle"]
    /\ tmp = [t \in Threads |-> UNINIT]
    /\ ret = [t \in Threads |-> None]
    /\ once = "Incomplete"
    /\ hashes = <<>>
    /\ i = 0
    /\ table = <<>>
    /\ runs = 0
    /\ idx = [t \in Threads |-> 0]
    /\ res = [t \in Threads |-> None]

\* the same on the x86_64 target, where the detector and its memo take part
\* in every call
InitX86 == Init /\ arch = "x86_64"

(***************************************************************************)
(* One caller using the hashing interface.                                 *)
(***************************************************************************)
CallHash(input) ==
    /\ op = Idle
    /\ \E r \in {hash(storage, input)} :
           /\ out' = r.val
           /\ sel' = r.impl
           /\ storage' = r.storage
           /\ probes' = probes + r.probed
    /\ op' = [name |-> "hash", a |-> input, b |-> <<>>]
    /\ UNCHANGED <<envVars, ctxt, ctx_state, fed, nupdate, nfinal, threadVars, lazyVars>>

CallHashFixed(input) ==
    /\ op = Idle
    /\ \E r \in {hash_fixed(storage, input)} :
           /\ out' = r.val
           /\ sel' = r.impl
           /\ storage' = r.storage
           /\ probes' = probes + r.probed
    /\ op' = [name |-> "hash_fixed", a |-> input, b |-> <<>>]
    /\ UNCHANGED <<envVars, ctxt, ctx_state, fed, nupdate, nfinal, threadVars, lazyVars>>

CallHash32Concat(h1, h2) ==
    /\ op = Idle
    /\ \E r \in {hash32_concat(storage, h1, h2)} :
           /\ out' = r.val
           /\ sel' = r.impl
           /\ storage' = r.storage
           /\ probes' = probes + r.probed
    /\ op' = [name |-> "hash32_concat", a |-> h1, b |-> h2]
    /\ UNCHANGED <<envVars, ctxt, ctx_state, fed, nupdate, nfinal, threadVars, lazyVars>>

CallHaveShaExtensions ==
    /\ op = Idle
    /\ LET d == have_sha_extensions(storage)
       IN  /\ out' = d.val
           /\ storage' = d.storage
           /\ probes' = probes + d.probed
    /\ op' = [name |-> "have_sha_extensions", a |-> <<>>, b |-> <<>>]
    /\ UNCHANGED <<envVars, sel, ctxt, ctx_state, fed, nupdate, nfinal, threadVars, lazyVars>>

CallBest ==
    /\ op = Idle
    /\ LET b == best(storage)
       IN  /\ sel' = b.impl
           /\ out' = b.impl
           /\ storage' = b.storage
           /\ probes' = probes + b.probed
    /\ op' = [name |-> "best", a |-> <<>>, b |-> <<>>]
    /\ UNCHANGED <<envVars, ctxt, ctx_state, fed, nupdate, nfinal, threadVars, lazyVars>>

\* Context::new()
CallNew ==
    /\ op = Idle
    /\ ctx_state = "none"
    /\ LET b == best(storage)
       IN  /\ ctxt' = DynamicContext_new(b.impl)
           /\ sel' = b.impl
           /\ storage' = b.storage
           /\ probes' = probes + b.probed
    /\ ctx_state' = "live"
    /\ op' = [name |-> "context", a |-> <<>>, b |-> <<>>]
    /\ UNCHANGED <<envVars, out, fed, nupdate, nfinal, threadVars, lazyVars>>

\* ctxt.update(bytes): needs the context (&mut self), so only a live one
CallUpdate(bytes) ==
    /\ ctx_state = "live"
    /\ nupdate < MaxChunks
    /\ ctxt' = DynamicContext_update(ctxt, bytes)
    /\ fed' = fed \o bytes
    /\ nupdate' = nupdate + 1
    /\ UNCHANGED <<envVars, storage, probes, op, out, sel, ctx_state, nfinal,
                   threadVars, lazyVars>>

\* a finalize that only borrowed the context would leave it usable
AfterFinalizeBorrowed == "live"

\* What finalize(self) leaves of the caller's binding: the context is moved
\* into the call, so nothing usable remains.
AfterFinalize == "consumed"

\* ctxt.finalize(): takes the context by value
CallFinalize ==
    /\ ctx_state = "live"
    /\ out' = DynamicContext_finalize(ctxt)
    /\ ctx_state' = AfterFinalize
    /\ ctxt' = IF AfterFinalize = "consumed" THEN Moved ELSE ctxt
    /\ nfinal' = nfinal + 1
    /\ UNCHANGED <<envVars, storage, probes, op, sel, fed, nupdate, threadVars, lazyVars>>

\* the context goes out of scope without having been finalized
DropContext ==
    /\ ctx_state = "live"
    /\ ctx_state' = "dropped"
    /\ ctxt' = Moved
    /\ UNCHANGED <<envVars, storage, probes, op, out, sel, fed, nupdate, nfinal,
                   threadVars, lazyVars>>

\* the caller has used the value of a call that left no context behind and
\* goes on to its next call
Again ==
    /\ op.name \in {"have_sha_extensions", "best"}
    /\ op' = Idle
    /\ out' = None
    /\ UNCHANGED <<envVars, storage, probes, sel, ctxt, ctx_state, fed, nupdate, nfinal,
                   threadVars, lazyVars>>

NextHash ==
    \/ \E input \in HashInputs : CallHash(input)
    \/ \E input \in HashInputs : CallHashFixed(input)
    \/ \E h1 \in ConcatInputs, h2 \in ConcatInputs : CallHash32Concat(h1, h2)
    \/ CallHaveShaExtensions
    \/ CallBest
    \/ CallNew
    \/ \E bytes \in Chunks : CallUpdate(bytes)
    \/ CallFinalize
    \/ DropContext
    \/ Again

SpecHash == Init /\ [][NextHash]_vars

(***************************************************************************)
(* Threads calling have_sha_extensions().  The memo is a relaxed atomic:   *)
(* the load, the probe and the store are separate steps of the caller.     *)
(***************************************************************************)
\* what have_sha_extensions() returns where the target is not x86_64
NotX86Result == FALSE

\* entry: on x86_64 load STORAGE, elsewhere return at once
HaveBegin(t) ==
    /\ pc[t] = "idle"
    /\ IF arch = "x86_64"
       THEN /\ tmp' = [tmp EXCEPT ![t] = storage]
            /\ pc' = [pc EXCEPT ![t] = "loaded"]
            /\ ret' = ret
       ELSE /\ ret' = [ret EXCEPT ![t] = NotX86Result]
            /\ pc' = [pc EXCEPT ![t] = "returned"]
            /\ tmp' = tmp
    /\ UNCHANGED <<envVars, storage, probes, callerVars, lazyVars, idx, res>>

\* init_inner, first half: the load saw UNINIT, so run the CPU-feature probe
HaveDetect(t) ==
    /\ pc[t] = "loaded"
    /\ tmp[t] = UNINIT
    /\ probes' = probes + 1
    /\ tmp' = [tmp EXCEPT ![t] = AsU8(cpu_sha)]
    /\ pc' = [pc EXCEPT ![t] = "detected"]
    /\ UNCHANGED <<envVars, storage, callerVars, lazyVars, ret, idx, res>>

\* init_inner, second half: store the result and return it
HaveStore(t) ==
    /\ pc[t] = "detected"
    /\ storage' = tmp[t]
    /\ ret' = [ret EXCEPT ![t] = (tmp[t] = 1)]
    /\ pc' = [pc EXCEPT ![t] = "returned"]
    /\ UNCHANGED <<envVars, probes, callerVars, lazyVars, tmp, idx, res>>

\* the load saw a stored result: return it without probing
HaveHit(t) ==
    /\ pc[t] = "loaded"
    /\ tmp[t] # UNINIT
    /\ ret' = [ret EXCEPT ![t] = (tmp[t] = 1)]
    /\ pc' = [pc EXCEPT ![t] = "returned"]
    /\ UNCHANGED <<envVars, storage, probes, callerVars, lazyVars, tmp, idx, res>>

\* the caller goes on and may call again
HaveEnd(t) ==
    /\ pc[t] = "returned"
    /\ pc' = [pc EXCEPT ![t] = "idle"]
    /\ UNCHANGED <<envVars, storage, probes, callerVars, lazyVars, tmp, ret, idx, res>>

NextProbe ==
    \E t \in Threads :
        \/ HaveBegin(t)
        \/ HaveDetect(t)
        \/ HaveStore(t)
        \/ HaveHit(t)
        \/ HaveEnd(t)

SpecProbe == Init /\ [][NextProbe]_vars

(***************************************************************************)
(* Threads using ZERO_HASHES, a LazyLock<Vec<[u8; HASH_LEN]>>.             *)
(***************************************************************************)
\* vec![[0; HASH_LEN]; ZERO_HASHES_MAX_INDEX + 1]
ZeroVec == [k \in 1..(ZERO_HASHES_MAX_INDEX + 1) |-> Zeros(HASH_LEN)]

\* a lazy cell without the lock: whoever finds no value yet starts building
ForceRacy(o) ==
    CASE o = "Complete" -> "have"
      [] o = "Incomplete" -> "build"
      [] o = "Running" -> "build"

\* a cell that is rebuilt on every access
ForceRebuild(o) ==
    CASE o = "Complete" -> "build"
      [] o = "Incomplete" -> "build"
      [] o = "Running" -> "wait"

\* What LazyLock::deref does for a caller that finds the cell in state o:
\* take the value, run the closure, or wait for the thread running it.
Force(o) ==
    CASE o = "Complete" -> "have"
      [] o = "Incomplete" -> "build"
      [] o = "Running" -> "wait"

\* v[k] = x on a vector (k counted from 0)
SetAt(v, k, x) == SubSeq(v, 1, k) \o <<x>> \o SubSeq(v, k + 2, Len(v))

\* a thread dereferences ZERO_HASHES
Deref(t) ==
    /\ pc[t] = "idle"
    /\ LET todo == Force(once)
       IN  /\ pc' = [pc EXCEPT ![t] = todo]
           /\ IF todo = "build"
              THEN /\ once' = "Running"
                   /\ runs' = runs + 1
                   /\ hashes' = ZeroVec
                   /\ i' = 0
                   /\ table' = <<>>
              ELSE UNCHANGED <<once, runs, hashes, i, table>>
    /\ UNCHANGED <<envVars, storage, probes, callerVars, tmp, ret, idx, res>>

\* a loop body that always hashes entry 0
LoopBodyFirstEntry(st, hs, k) == hash32_concat(st, hs[1], hs[1])

\* the loop body: hash32_concat(&hashes[i], &hashes[i])
LoopBody(st, hs, k) == hash32_concat(st, hs[k + 1], hs[k + 1])

\* one iteration of `for i in 0..ZERO_HASHES_MAX_INDEX`
BuildStep(t) ==
    /\ pc[t] = "build"
    /\ i < ZERO_HASHES_MAX_INDEX
    /\ \E r \in {LoopBody(storage, hashes, i)} :
           /\ hashes' = SetAt(hashes, i + 1, r.val)
           /\ storage' = r.storage
           /\ probes' = probes + r.probed
    /\ i' = i + 1
    /\ UNCHANGED <<envVars, callerVars, threadVars, once, table, runs>>

\* the closure returns `hashes`; LazyLock stores it and releases the waiters
BuildDone(t) ==
    /\ pc[t] = "build"
    /\ i = ZERO_HASHES_MAX_INDEX
    /\ table' = hashes
    /\ hashes' = <<>>
    /\ once' = "Complete"
    /\ pc' = [pc EXCEPT ![t] = "have"]
    /\ UNCHANGED <<envVars, storage, probes, callerVars, tmp, ret, idx, res, i, runs>>

\* a thread that waited for the running initialisation proceeds
Wake(t) ==
    /\ pc[t] = "wait"
    /\ once = "Complete"
    /\ pc' = [pc EXCEPT ![t] = "have"]
    /\ UNCHANGED <<envVars, storage, probes, callerVars, lazyVars, tmp, ret, idx, res>>

\* the thread lets go of the reference without indexing
Release(t) ==
    /\ pc[t] = "have"
    /\ pc' = [pc EXCEPT ![t] = "idle"]
    /\ UNCHANGED <<envVars, storage, probes, callerVars, lazyVars, tmp, ret, idx, res>>

\* a lookup that answers an index past the end with a zeroed digest
IndexOrDefault(v, k) == IF k < Len(v) THEN v[k + 1] ELSE Zeros(HASH_LEN)

\* Vec indexing ZERO_HASHES[k]: the entry, or an out-of-bounds panic
Index(v, k) == IF k < Len(v) THEN v[k + 1] ELSE Panic

Lookup(t, k) ==
    /\ pc[t] = "have"
    /\ idx' = [idx EXCEPT ![t] = k]
    /\ res' = [res EXCEPT ![t] = Index(table, k)]
    /\ pc' = [pc EXCEPT ![t] = IF Index(table, k) = Panic THEN "panicked" ELSE "got"]
    /\ UNCHANGED <<envVars, storage, probes, callerVars, lazyVars, tmp, ret>>

\* the caller is done with the digest
Return(t) ==
    /\ pc[t] = "got"
    /\ pc' = [pc EXCEPT ![t] = "idle"]
    /\ idx' = [idx EXCEPT ![t] = 0]
    /\ res' = [res EXCEPT ![t] = None]
    /\ UNCHANGED <<envVars, storage, probes, callerVars, lazyVars, tmp, ret>>

\* any other call into the library (best, have_sha_extensions, hash,
\* hash_fixed, hash32_concat, Context::new/update/finalize): of the shared
\* state it touches the capability memo only
OtherCall(t) ==
    /\ pc[t] = "idle"
    /\ LET b == best(storage)
       IN  /\ storage' = b.storage
           /\ probes' = probes + b.probed
    /\ UNCHANGED <<envVars, callerVars, lazyVars, threadVars>>

\* indices the callers try: both ends of the table, and past its end
LookupIndices ==
    {0, 1, ZERO_HASHES_MAX_INDEX - 1, ZERO_HASHES_MAX_INDEX,
     ZERO_HASHES_MAX_INDEX + 1, ZERO_HASHES_MAX_INDEX + Over}

NextBuild ==
    \E t \in Threads :
        \/ Deref(t)
        \/ BuildStep(t)
        \/ BuildDone(t)
        \/ Wake(t)
        \/ Release(t)

SpecBuild == InitX86 /\ [][NextBuild]_vars

NextZero ==
    \E t \in Threads :
        \/ Deref(t)
        \/ BuildStep(t)
        \/ BuildDone(t)
        \/ Wake(t)
        \/ \E k \in LookupIndices : Lookup(t, k)
        \/ Return(t)
        \/ OtherCall(t)

SpecZero == InitX86 /\ [][NextZero]_vars

(***************************************************************************)
(* Properties.                                                             *)
(***************************************************************************)
\* C1: chunking invariance. Whatever chunks a fresh Context was given, in
\* whatever partition (empty chunks and no chunk at all included), finalize
\* returns the digest that hash returns for their concatenation.
ChunkingInvariance ==
    (op.name = "context" /\ ctx_state = "consumed") => out = hash(storage, fed).val

\* a context finalized after several updates that together span a block boundary
ChunkedAcrossBlocks ==
    /\ ctx_state = "consumed"
    /\ nupdate >= 2
    /\ Len(fed) > BlockLen
    /\ Len(out) = HASH_LEN

\* C2: concatenation equivalence. hash32_concat(h1, h2) is hash(h1 ++ h2).
ConcatEquivalence ==
    op.name = "hash32_concat" => out = hash(storage, op.a \o op.b).val

\* hash32_concat of two different non-empty slices, longer than a block together
ConcatTwoSlices ==
    /\ op.name = "hash32_concat"
    /\ op.a = HelloWorld
    /\ op.b = Bytes(55)
    /\ Len(out) = HASH_LEN

\* C3: zero-hash table content. Whenever the table is published it has the
\* entries 0..=48, entry 0 is 32 zero bytes, and each entry i+1 is the hash of
\* entry i followed by entry i.
ZeroHashContent ==
    once = "Complete" =>
        /\ Len(table) = ZERO_HASHES_MAX_INDEX + 1
        /\ DOMAIN table = 1..(ZERO_HASHES_MAX_INDEX + 1)
        /\ table[1] = Zeros(HASH_LEN)
        /\ \A k \in 1..ZERO_HASHES_MAX_INDEX : table[k + 1] = hash(storage, table[k] \o table[k]).val

\* the table has been built and a thread holds it
TablePublished ==
    /\ once = "Complete"
    /\ \E t \in Threads : pc[t] = "have"
    /\ table[ZERO_HASHES_MAX_INDEX + 1] # Zeros(HASH_LEN)

\* C4: exactly-once lazy build. However the threads race on their first
\* access, the closure is started at most once, only one thread runs it, a
\* thread holds the table only once the closure has run to its end, and what
\* it then holds is the one complete table.
BuildExactlyOnce ==
    /\ runs <= 1
    /\ Cardinality({t \in Threads : pc[t] = "build"}) <= 1
    /\ (once = "Incomplete" <=> runs = 0)
    /\ (once = "Running" <=> \E t \in Threads : pc[t] = "build")
    /\ (once # "Complete" => table = <<>>)
    /\ \A t \in Threads :
          pc[t] = "have" =>
              /\ once = "Complete"
              /\ i = ZERO_HASHES_MAX_INDEX
              /\ hashes = <<>>
              /\ Len(table) = ZERO_HASHES_MAX_INDEX + 1

\* every thread raced for the table and every thread ended up holding it
AllThreadsHoldTable ==
    /\ runs = 1
    /\ \A t \in Threads : pc[t] = "have"

\* a lookup panicked only on an index above 48, and holds the entry otherwise
LookupInRange ==
    \A t \in Threads :
        /\ pc[t] = "panicked" => (idx[t] > ZERO_HASHES_MAX_INDEX /\ res[t] = Panic)
        /\ pc[t] = "got" =>
              /\ idx[t] <= ZERO_HASHES_MAX_INDEX
              /\ res[t] = table[idx[t] + 1]
              /\ Len(res[t]) = HASH_LEN

\* the step on which a lookup panics leaves the table as it was
FailedLookupKeepsTable ==
    (\E t \in Threads : pc[t] # "panicked" /\ pc'[t] = "panicked")
        => (table' = table /\ once' = once)

\* C5: out-of-range lookup. An index above 48 ends in a panic and yields no
\* digest, an index in 0..=48 yields the entry, and the failed lookup leaves
\* the table as it was.
OutOfRangeLookup == [](LookupInRange) /\ [][FailedLookupKeepsTable]_vars

\* a thread asked for index 49 and panicked
PanickedAt49 ==
    \E t \in Threads : pc[t] = "panicked" /\ idx[t] = ZERO_HASHES_MAX_INDEX + 1

\* b94d27b9934d3e08a52e52d7da7dabfac484efe37a5380ee9088f7ace2efcde9
HelloDigest ==
    <<185, 77, 39, 185, 147, 77, 62, 8, 165, 46, 82, 215, 218, 125, 171, 250,
      196, 132, 239, 227, 122, 83, 128, 238, 144, 136, 247, 172, 226, 239, 205, 233>>

\* C6: known answer. hash(b"hello world") is the FIPS 180-4 SHA-256 digest
\* b94d27b9934d3e08a52e52d7da7dabfac484efe37a5380ee9088f7ace2efcde9.
KnownAnswer ==
    (op.name = "hash" /\ op.a = HelloWorld) => out = HelloDigest

\* the caller hashed "hello world" and holds a digest
HashedHelloWorld ==
    /\ op.name = "hash"
    /\ op.a = HelloWorld
    /\ Len(out) = HASH_LEN

\* The lifecycle with "exactly one finalize": every context that has ended
\* its life was finalized exactly once.
LifecycleExactlyOneFinalize ==
    /\ (ctx_state \in {"consumed", "dropped"} => nfinal = 1)
    /\ (ctx_state = "consumed" => ctxt = Moved)

\* finalize happened at most once, and exactly when the context is consumed
LifecycleShape ==
    /\ nfinal <= 1
    /\ (ctx_state = "consumed" <=> nfinal = 1)
    /\ (ctx_state = "none" => (nupdate = 0 /\ ctxt = None))
    /\ (ctx_state \in {"consumed", "dropped"} => ctxt = Moved)

\* nothing can be done with a consumed context
FinalizedStaysFinalized ==
    ctx_state = "consumed" => UNCHANGED <<ctx_state, ctxt, out, fed, nupdate, nfinal>>

\* C7: context lifecycle. A context is created, then updated any number of
\* times, then finalized at most once (it may also be dropped unfinalized);
\* after finalize the context is gone: no update, no second finalize, no
\* further digest.
ContextLifecycle == [](LifecycleShape) /\ [][FinalizedStaysFinalized]_vars

\* a context that was updated and then finalized
UpdatedThenFinalized ==
    /\ ctx_state = "consumed"
    /\ nupdate >= 1
    /\ nfinal = 1

\* a step taken once the table is built leaves it built and as it is
BuiltStaysBuilt ==
    once = "Complete" => (once' = "Complete" /\ table' = table /\ runs' = runs)

\* lookups of one index hold one digest
SameIndexSameDigest ==
    \A t \in Threads, u \in Threads :
        (pc[t] = "got" /\ pc[u] = "got" /\ idx[t] = idx[u]) => res[t] = res[u]

\* C8: table immutability. Once the table is built, no step of any thread
\* (lookups, other library calls) changes it, unpublishes it or starts the
\* closure again, and two lookups of the same index hold the same digest.
TableImmutable == [](SameIndexSameDigest) /\ [][BuiltStaysBuilt]_vars

\* two threads hold the digest of the same non-zero index after the build
TwoLookupsSameIndex ==
    \E t \in Threads, u \in Threads :
        /\ t # u
        /\ pc[t] = "got" /\ pc[u] = "got"
        /\ idx[t] = ZERO_HASHES_MAX_INDEX /\ idx[u] = ZERO_HASHES_MAX_INDEX
        /\ storage # UNINIT

\* the boolean every detector call must produce in this process
Detected == arch = "x86_64" /\ cpu_sha

ProbeShape ==
    /\ \A t \in Threads : pc[t] = "returned" => ret[t] = Detected
    /\ (arch # "x86_64" => (probes = 0 /\ storage = UNINIT))
    /\ ((arch = "x86_64" /\ \E t \in Threads : pc[t] = "returned") => probes >= 1)
    /\ probes <= NThreads
    /\ (storage # UNINIT => storage = AsU8(Detected))

\* only a caller whose load saw the memo unset probes, and a call that starts
\* with the memo stored loads the stored value
ProbeOnlyOnUnset ==
    /\ probes' # probes =>
          /\ probes' = probes + 1
          /\ \E t \in Threads :
                pc[t] = "loaded" /\ tmp[t] = UNINIT /\ pc'[t] = "detected"
    /\ storage # UNINIT =>
          \A t \in Threads :
              (pc[t] = "idle" /\ pc'[t] = "loaded") => tmp'[t] = storage

SelectionIndependent ==
    /\ sel \in {"none", "Sha2"}
    /\ op.name = "best" => out = "Sha2"
    /\ op.name = "hash" => out = Sha2CrateImpl_hash(op.a)
    /\ op.name = "hash_fixed" => out = Sha2CrateImpl_hash_fixed(op.a)
    /\ op.name = "hash32_concat" => out = Sha2CrateImpl_hash(op.a \o op.b)
    /\ (op.name = "context" /\ ctx_state = "consumed") => out = Sha2CrateImpl_hash(fed)

\* a digest computed in a process whose CPU has the SHA extensions
HashedWithExtensions ==
    /\ Detected
    /\ storage = 1
    /\ op.name = "hash"
    /\ sel = "Sha2"

====
